---- MODULE Spec2Model ----
(***************************************************************************)
(* Model of the DynamoDB query layer of b-s_docgen_support:                *)
(*   - BaseDynamoRepository's paginated fetch engine (queryAll, scanAll,   *)
(*     queryWithPagination, queryWithAggregation, scanWithAggregation,     *)
(*     hasResultBeenTruncated), src/src/repositories/exampleDynamo.        *)
(*     repository.ts;                                                      *)
(*   - QueryBuilder, src/src/repositories/dynamoDbQueryBuilder.ts, with    *)
(*     the AttributeTracker and the conditions it compiles,                *)
(*     src/src/repositories/dynamoDbExpressions.ts.                        *)
(***************************************************************************)
EXTENDS Integers, Sequences, FiniteSets, TLC

VARIABLES
  truncIn,      \* hasResultBeenTruncated: the arguments of the call under test
  truncOut,     \* hasResultBeenTruncated: its return value, once called
  request,      \* fetch engine: the caller's QueryCommandInput / ScanCommandInput
  script,       \* fetch engine: the store's pages, fixed once first served
  fetch,        \* fetch engine: one record per running repository call
  builder,      \* QueryBuilder: the fields of one builder instance
  outcome,      \* QueryBuilder: what the latest call on the builder returned or threw
  attributeTracker,  \* AttributeTracker: the fields of one tracker instance
  resolutions   \* AttributeTracker: the get calls made on it, with what each returned

truncVars == <<truncIn, truncOut>>
fetchVars == <<request, script, fetch>>
builderVars == <<builder, outcome>>
trackerVars == <<attributeTracker, resolutions>>
vars ==
  <<truncIn, truncOut, request, script, fetch, builder, outcome, attributeTracker,
    resolutions>>

(***************************************************************************)
(* Bounds of the model.                                                    *)
(***************************************************************************)
MaxPages == 3        \* pages the store holds
MaxPageSize == 3     \* items of one store response
MaxLimit == 10       \* largest Limit a caller asks for
MaxCount == 4        \* largest aggregatedOutputLength handed to hasResultBeenTruncated
MaxGets == 2         \* get calls made on a tracker one at a time
MaxRepeats == 9      \* literals a tracker has resolved in a row before those

(***************************************************************************)
(* JavaScript values: `undefined` and a defined value.                     *)
(***************************************************************************)
Undefined == <<>>
Def(v) == <<v>>
IsDef(o) == o # Undefined
Val(o) == o[1]
\* x ?? []
OrEmpty(o) == IF IsDef(o) THEN Val(o) ELSE <<>>
\* the truthiness of a number | undefined
TruthyNum(o) == IsDef(o) /\ Val(o) # 0

(***************************************************************************)
(* BaseDynamoRepository.hasResultBeenTruncated                             *)
(***************************************************************************)
\* slip: the limit is ignored
hasResultBeenTruncated_NoCountCheck(inputLimit, aggregatedOutputLength, lastEvaluatedKey) ==
  IsDef(lastEvaluatedKey)

\* slip: <= for <
hasResultBeenTruncated_LessOrEqual(inputLimit, aggregatedOutputLength, lastEvaluatedKey) ==
  LET outputLength == IF IsDef(aggregatedOutputLength) THEN Val(aggregatedOutputLength) ELSE 0
  IN  IF TruthyNum(inputLimit) /\ Val(inputLimit) > 0
      THEN IsDef(lastEvaluatedKey) /\ outputLength <= Val(inputLimit)
      ELSE IsDef(lastEvaluatedKey)

hasResultBeenTruncated(inputLimit, aggregatedOutputLength, lastEvaluatedKey) ==
  LET outputLength == IF IsDef(aggregatedOutputLength) THEN Val(aggregatedOutputLength) ELSE 0
  IN  IF TruthyNum(inputLimit) /\ Val(inputLimit) > 0
      THEN IsDef(lastEvaluatedKey) /\ outputLength < Val(inputLimit)
      ELSE IsDef(lastEvaluatedKey)

(***************************************************************************)
(* The store (DynamoDBDocumentClient.send) and the requests sent to it.    *)
(* A continuation token is opaque to the repository; the store of the      *)
(* model hands out the number of the page it ends.                         *)
(***************************************************************************)
Limits == {Undefined} \cup {Def(n) : n \in -1..MaxLimit}
Tokens == {Undefined} \cup {Def(k) : k \in 1..MaxPages}
StartKeys == {Undefined, Def(1)}
StoreErrors == {"ProvisionedThroughputExceededException"}

QueryInputs == [TableName : {"foo"}, Limit : Limits, ExclusiveStartKey : StartKeys]

\* the items of page k when it holds n items: distinct over all pages
PageItems(k, n) == [j \in 1..n |-> k * (MaxPageSize + 1) + j]

\* the sizes of a store response: empty, a single item, a full page
PageSizes == {0, 1, MaxPageSize}

\* what the store may answer for page k: a failure, or Items (possibly absent)
\* with or without a LastEvaluatedKey
PageResponses(k) ==
  {[error |-> Def(e), Items |-> Undefined, LastEvaluatedKey |-> Undefined] : e \in StoreErrors}
  \cup
  [error : {Undefined},
   Items : {Undefined} \cup {Def(PageItems(k, n)) : n \in PageSizes},
   LastEvaluatedKey : {Undefined, Def(k)}]

\* the page a command input asks for
PageOf(input) ==
  IF IsDef(input.ExclusiveStartKey) THEN Val(input.ExclusiveStartKey) + 1 ELSE 1

\* two callers of one repository instance: one pages, one aggregates
Pager == "pager"
Aggregator == "aggregator"
Procs == {Pager, Aggregator}

\* the page loop an entry point runs
LoopOf(api) == IF api = "scanWithAggregation" THEN "scanAll" ELSE "queryAll"

\* an invocation that has not been called; `overlapped` records, for the
\* properties only, that an answer reached it while another invocation was
\* between two of its own store calls
Idle ==
  [pc |-> "idle", api |-> "none", calls |-> <<>>, nresp |-> 0,
   items |-> <<>>, returned |-> Undefined, thrown |-> Undefined, overlapped |-> FALSE]

\* queryAll / scanAll: the command of the first page
FirstCommand(loop, input) ==
  [cmd |-> IF loop = "scanAll" THEN "ScanCommand" ELSE "QueryCommand", input |-> input]

\* slip: the follow-up page asks for the full limit again
NextCommand_KeepsLimit(loop, input, items, result) ==
  [cmd |-> "QueryCommand",
   input |-> [input EXCEPT !.ExclusiveStartKey = result.LastEvaluatedKey]]

\* slip: only queryAll lowers the limit of its follow-up pages
NextCommand_ScanKeepsLimit(loop, input, items, result) ==
  [cmd |-> "QueryCommand",
   input |-> [input EXCEPT
                !.Limit = IF TruthyNum(input.Limit) /\ loop = "queryAll"
                          THEN Def(Val(input.Limit) - Len(items))
                          ELSE input.Limit,
                !.ExclusiveStartKey = result.LastEvaluatedKey]]

\* slip: the follow-up limit counts the items of the last page only
NextCommand_CountsLastPage(loop, input, items, result) ==
  [cmd |-> "QueryCommand",
   input |-> [input EXCEPT
                !.Limit = IF TruthyNum(input.Limit)
                          THEN Def(Val(input.Limit) - Len(OrEmpty(result.Items)))
                          ELSE Undefined,
                !.ExclusiveStartKey = result.LastEvaluatedKey]]

\* queryAll / scanAll: the command of a follow-up page (both loops send a QueryCommand)
NextCommand(loop, input, items, result) ==
  [cmd |-> "QueryCommand",
   input |-> [input EXCEPT
                !.Limit = IF TruthyNum(input.Limit)
                          THEN Def(Val(input.Limit) - Len(items))
                          ELSE Undefined,
                !.ExclusiveStartKey = result.LastEvaluatedKey]]

\* slip: the page's continuation token is not handed back
Returned_DropsKey(api, output) ==
  IF api = "queryWithPagination"
  THEN [items |-> OrEmpty(output.Items), lastEvaluatedKey |-> Undefined]
  ELSE [items |-> OrEmpty(output.Items)]

\* what the entry point returns from the loop's output { ...result, Items: items }
Returned(api, output) ==
  IF api = "queryWithPagination"
  THEN [items |-> OrEmpty(output.Items), lastEvaluatedKey |-> output.LastEvaluatedKey]
  ELSE [items |-> OrEmpty(output.Items)]

(***************************************************************************)
(* Actions of the fetch engine.                                            *)
(***************************************************************************)
\* an entry point is called: it runs up to the first `await send(...)`
StartFetch(p, api) ==
  /\ fetch[p].pc = "idle"
  /\ fetch' = [fetch EXCEPT ![p] =
                 [Idle EXCEPT !.pc = "await", !.api = api,
                              !.calls = <<FirstCommand(LoopOf(api), request)>>]]
  /\ UNCHANGED <<truncVars, request, script, builderVars, trackerVars>>

queryWithPagination == StartFetch(Pager, "queryWithPagination")
queryWithAggregation == StartFetch(Aggregator, "queryWithAggregation")
scanWithAggregation == StartFetch(Aggregator, "scanWithAggregation")

\* slip: the gathered items are a field of the repository, one list for all
\* invocations
Resume_SharedItems(p, r) ==
  LET f == fetch[p]
      input == f.calls[1].input
      shared == IF \E q \in Procs \ {p} : fetch[q].pc = "await"
                THEN fetch[CHOOSE q \in Procs \ {p} : fetch[q].pc = "await"].items
                ELSE f.items
      items == IF f.nresp = 0 THEN OrEmpty(r.Items) ELSE shared \o OrEmpty(r.Items)
      g == [f EXCEPT !.nresp = @ + 1, !.items = items]
  IN  IF hasResultBeenTruncated(input.Limit, Def(Len(items)), r.LastEvaluatedKey)
      THEN [g EXCEPT !.calls = Append(@, NextCommand(LoopOf(f.api), input, items, r))]
      ELSE [g EXCEPT !.pc = "done",
                     !.returned = Def(Returned(f.api, [r EXCEPT !.Items = Def(items)]))]

\* slip: the items of a follow-up page are put in front of those gathered
Resume_Prepends(p, r) ==
  LET f == fetch[p]
      input == f.calls[1].input
      items == IF f.nresp = 0 THEN OrEmpty(r.Items) ELSE OrEmpty(r.Items) \o f.items
      g == [f EXCEPT !.nresp = @ + 1, !.items = items]
  IN  IF hasResultBeenTruncated(input.Limit, Def(Len(items)), r.LastEvaluatedKey)
      THEN [g EXCEPT !.calls = Append(@, NextCommand(LoopOf(f.api), input, items, r))]
      ELSE [g EXCEPT !.pc = "done",
                     !.returned = Def(Returned(f.api, [r EXCEPT !.Items = Def(items)]))]

\* the pending send of p resolves with r: the loop resumes and runs to its next
\* await, or to its return
Resume(p, r) ==
  LET f == fetch[p]
      input == f.calls[1].input
      items == IF f.nresp = 0 THEN OrEmpty(r.Items) ELSE f.items \o OrEmpty(r.Items)
      g == [f EXCEPT !.nresp = @ + 1, !.items = items]
  IN  IF hasResultBeenTruncated(input.Limit, Def(Len(items)), r.LastEvaluatedKey)
      THEN [g EXCEPT !.calls = Append(@, NextCommand(LoopOf(f.api), input, items, r))]
      ELSE [g EXCEPT !.pc = "done",
                     !.returned = Def(Returned(f.api, [r EXCEPT !.Items = Def(items)]))]

\* slip: the loop catches the failure and returns what it has gathered
Reject_ReturnsPartial(p, r) ==
  [fetch[p] EXCEPT !.pc = "done", !.nresp = @ + 1,
                   !.returned = Def([items |-> fetch[p].items])]

\* the pending send of p rejects with r.error: the await throws, nothing catches it
Reject(p, r) ==
  [fetch[p] EXCEPT !.pc = "failed", !.nresp = @ + 1, !.thrown = r.error]

\* another invocation has had an answer and waits for its next one
Overlapping(p) == \E q \in Procs \ {p} : fetch[q].pc = "await" /\ fetch[q].nresp >= 1

\* the store answers the pending call of p
StoreAnswer(p) ==
  /\ fetch[p].pc = "await"
  /\ LET k == PageOf(fetch[p].calls[Len(fetch[p].calls)].input)
     IN  /\ k <= MaxPages
         /\ \E r \in PageResponses(k) :
              /\ IsDef(script[k]) => r = Val(script[k])
              /\ script' = [script EXCEPT ![k] = Def(r)]
              /\ fetch' = [fetch EXCEPT ![p] =
                             [(IF IsDef(r.error) THEN Reject(p, r) ELSE Resume(p, r))
                                EXCEPT !.overlapped = @ \/ Overlapping(p)]]
  /\ UNCHANGED <<truncVars, request, builderVars, trackerVars>>

\* the store answers the pending call of p, and its data ends: the last page
\* it can hand out carries no continuation token
FiniteAnswer(p) ==
  /\ StoreAnswer(p)
  /\ IsDef(script'[MaxPages]) => ~IsDef(Val(script'[MaxPages]).LastEvaluatedKey)

(***************************************************************************)
(* dynamoDbExpressions.ts: the AttributeTracker and the conditions.        *)
(*                                                                         *)
(* A field name is kept as the sequence of its dot-separated segments, so  *)
(* that path.split(".") is something the model does; JoinDot gives back    *)
(* the string.  A literal is [kind, text]; a condition is a record whose   *)
(* kind is its class.                                                      *)
(***************************************************************************)
EmptyMap == [k \in {} |-> k]
\* obj[k] = v
Put(m, k, v) == [y \in DOMAIN m \cup {k} |-> IF y = k THEN v ELSE m[y]]

\* strs.join(sep)
RECURSIVE Join(_, _)
Join(strs, sep) ==
  IF Len(strs) = 0 THEN ""
  ELSE IF Len(strs) = 1 THEN strs[1]
  ELSE strs[1] \o sep \o Join(Tail(strs), sep)

JoinDot(path) == Join(path, ".")

\* A(name)
A(name) == [kind |-> "AttributeName", name |-> name]
Str(text) == [kind |-> "string", text |-> text]
Num(text) == [kind |-> "number", text |-> text]
DateOf(text) == [kind |-> "Date", text |-> text]

ConditionKinds ==
  {"Comparison", "Between", "BeginsWith", "In", "And", "Or", "Not",
   "Exists", "NotExists", "Type", "Contains"}

\* value instanceof Condition
IsCondition(value) == value.kind \in ConditionKinds

Comparison(operand1, comparator, operand2) ==
  [kind |-> "Comparison", operand1 |-> operand1, comparator |-> comparator,
   operand2 |-> operand2]
Eq(operand1, operand2) == Comparison(operand1, "=", operand2)
KeyConditionComparison(keyName, comparator, operand2) ==
  Comparison(A(keyName), comparator, operand2)
Between(operand, start, end) ==
  [kind |-> "Between", operand |-> operand, start |-> start, end |-> end]
BeginsWith(operand, beginsWith) ==
  [kind |-> "BeginsWith", operand |-> operand, beginsWith |-> beginsWith]
In(operand, list) == [kind |-> "In", operand |-> operand, list |-> list]
And(conditions) == [kind |-> "And", conditions |-> conditions]
Or(conditions) == [kind |-> "Or", conditions |-> conditions]
Not(condition) == [kind |-> "Not", condition |-> condition]
Exists(path) == [kind |-> "Exists", path |-> path]
NotExists(path) == [kind |-> "NotExists", path |-> path]
Type(path, type) == [kind |-> "Type", path |-> path, type |-> type]
Contains(path, operand) == [kind |-> "Contains", path |-> path, operand |-> operand]
Size(path) == [kind |-> "Size", path |-> path]

attributeTypeMap(type) ==
  CASE type = "string" -> "S"
    [] type = "stringSet" -> "SS"
    [] type = "number" -> "N"
    [] type = "numberSet" -> "NN"
    [] type = "binary" -> "B"
    [] type = "binarySet" -> "BS"
    [] type = "boolean" -> "BOOL"
    [] type = "null" -> "NULL"
    [] type = "list" -> "L"
    [] type = "map" -> "M"

\* new AttributeTracker()
NewTracker ==
  [valueCounter |-> 0, attributeNames |-> EmptyMap, attributeValues |-> EmptyMap]

\* Date.prototype.toISOString, on the dates the model uses
toISOString(text) ==
  CASE text = "12/12/2023Z" -> "2023-12-12T00:00:00.000Z"
    [] OTHER -> "1970-01-01T00:00:00.000Z"

\* AttributeTracker.convertValue
convertValue(value) ==
  IF value.kind = "Date" THEN Str(toISOString(value.text)) ELSE value

\* the outcome of a call that returns a string or throws
Ok(str, tracker) == [str |-> str, tracker |-> tracker, error |-> Undefined]
Throw(message, tracker) == [str |-> "", tracker |-> tracker, error |-> Def(message)]

getName_IgnoresAlias(tracker, attrName, alias) ==
  Ok("#" \o JoinDot(attrName),
     [tracker EXCEPT !.attributeNames = Put(@, "#" \o JoinDot(attrName), JoinDot(attrName))])

\* AttributeTracker.getName
getName(tracker, attrName, alias) ==
  LET mapped == "#" \o (IF IsDef(alias) THEN Val(alias) ELSE JoinDot(attrName))
  IN  Ok(mapped, [tracker EXCEPT !.attributeNames = Put(@, mapped, JoinDot(attrName))])

\* AttributeTracker.getValue
getValue(tracker, value, alias) ==
  LET attrName == IF IsDef(alias) THEN Val(alias) ELSE "v_sub"
      mapped == ":" \o attrName \o ToString(tracker.valueCounter)
  IN  Ok(mapped, [tracker EXCEPT !.valueCounter = @ + 1,
                                 !.attributeValues = Put(@, mapped, convertValue(value))])

\* path.split(".").map((part) => A(part))
PathParts(path) == [i \in 1..Len(path) |-> A(<<path[i]>>)]

\* the operands a condition hands to tracker.get, in the order it does
Operands(c) ==
  CASE c.kind = "Comparison" -> <<c.operand1, c.operand2>>
    [] c.kind = "Between" -> <<c.operand, c.start, c.end>>
    [] c.kind = "BeginsWith" -> <<c.operand, Str(c.beginsWith)>>
    [] c.kind = "In" -> <<c.operand>> \o c.list
    [] c.kind \in {"And", "Or"} -> c.conditions
    [] c.kind = "Not" -> <<c.condition>>
    [] c.kind \in {"Exists", "NotExists", "Size"} -> PathParts(c.path)
    [] c.kind = "Type" -> <<Str(attributeTypeMap(c.type))>> \o PathParts(c.path)
    [] c.kind = "Contains" -> <<c.operand>> \o PathParts(c.path)

\* the string a condition makes of its resolved operands
Format(c, s) ==
  CASE c.kind = "Comparison" -> s[1] \o " " \o c.comparator \o " " \o s[2]
    [] c.kind = "Between" -> s[1] \o " BETWEEN " \o s[2] \o " AND " \o s[3]
    [] c.kind = "BeginsWith" -> "begins_with(" \o s[1] \o ", " \o s[2] \o ")"
    [] c.kind = "In" -> s[1] \o " IN (" \o Join(Tail(s), ", ") \o ")"
    [] c.kind = "And" -> "(" \o Join(s, ") AND (") \o ")"
    [] c.kind = "Or" -> "(" \o Join(s, ") OR (") \o ")"
    [] c.kind = "Not" -> "NOT (" \o s[1] \o ")"
    [] c.kind = "Exists" -> "attribute_exists(" \o Join(s, ".") \o ")"
    [] c.kind = "NotExists" -> "attribute_not_exists(" \o Join(s, ".") \o ")"
    [] c.kind = "Size" -> "size(" \o Join(s, ".") \o ")"
    [] c.kind = "Type" -> "attribute_type(" \o Join(Tail(s), ".") \o ", " \o s[1] \o ")"
    [] c.kind = "Contains" -> "contains(" \o Join(Tail(s), ".") \o ", " \o s[1] \o ")"

RECURSIVE Get(_, _, _)
RECURSIVE GetEach(_, _)
RECURSIVE Build(_, _)

\* AttributeTracker.get
Get(tracker, value, alias) ==
  IF IsCondition(value) \/ value.kind = "Size" THEN Build(value, tracker)
  ELSE IF value.kind = "AttributeName" THEN getName(tracker, value.name, alias)
  ELSE getValue(tracker, value, alias)

\* operands.map((o) => tracker.get(o)): stops at the first throw
GetEach(tracker, operands) ==
  IF Len(operands) = 0
  THEN [strs |-> <<>>, tracker |-> tracker, error |-> Undefined]
  ELSE LET h == Get(tracker, Head(operands), Undefined)
       IN  IF IsDef(h.error)
           THEN [strs |-> <<>>, tracker |-> h.tracker, error |-> h.error]
           ELSE LET t == GetEach(h.tracker, Tail(operands))
                IN  [strs |-> <<h.str>> \o t.strs, tracker |-> t.tracker,
                     error |-> t.error]

Build_AllowsOne(c, tracker) ==
  IF c.kind \in {"And", "Or"} /\ Len(c.conditions) < 1
  THEN Throw(c.kind \o " condition must have at least 2 operands but got: "
               \o ToString(Len(c.conditions)), tracker)
  ELSE LET r == GetEach(tracker, Operands(c))
       IN  IF IsDef(r.error)
           THEN Throw(Val(r.error), r.tracker)
           ELSE Ok(Format(c, r.strs), r.tracker)

\* Condition.build / Size.build
Build(c, tracker) ==
  IF c.kind \in {"And", "Or"} /\ Len(c.conditions) < 2
  THEN Throw(c.kind \o " condition must have at least 2 operands but got: "
               \o ToString(Len(c.conditions)), tracker)
  ELSE LET r == GetEach(tracker, Operands(c))
       IN  IF IsDef(r.error)
           THEN Throw(Val(r.error), r.tracker)
           ELSE Ok(Format(c, r.strs), r.tracker)

(***************************************************************************)
(* dynamoDbQueryBuilder.ts: QueryBuilder.                                  *)
(*                                                                         *)
(* A request object is a record over RequestFields; a field that is absent *)
(* and a field that holds `undefined` are the same thing here, as they are *)
(* to the store client.                                                    *)
(***************************************************************************)
RequestFields ==
  {"TableName", "KeyConditionExpression", "IndexName", "FilterExpression",
   "ProjectionExpression", "Limit", "ExclusiveStartKey", "ScanIndexForward",
   "ExpressionAttributeNames", "ExpressionAttributeValues", "ConsistentRead"}

\* {}
NoFields == [f \in RequestFields |-> Undefined]

\* Object.assign(target, source): the fields source has win
ObjectAssign(target, source) ==
  [f \in RequestFields |-> IF IsDef(source[f]) THEN source[f] ELSE target[f]]

\* the truthiness of a string | undefined
TruthyStr(o) == IsDef(o) /\ Val(o) # ""

\* the truthiness of a string | undefined held as a path
TruthyName(o) == IsDef(o) /\ Val(o) # <<>>

\* a name coerced to a string where the code takes it for one
NameOf(o) == IF IsDef(o) THEN Val(o) ELSE <<"undefined">>

\* new QueryBuilder(tableName)
NewBuilder(tableName) ==
  [tableName |-> tableName,
   query |-> [NoFields EXCEPT !.TableName = Def(tableName)],
   index |-> Undefined, keys |-> Undefined, filter |-> Undefined,
   filterExpression |-> Undefined, fields |-> Undefined,
   pagination |-> Undefined, rawQueryOptions |-> Undefined,
   tracker |-> NewTracker]

\* the state a build threads through its steps: the request object (this.query
\* itself), the tracker, and the error once a step has thrown
Step(query, tracker) == [query |-> query, tracker |-> tracker, error |-> Undefined]
Thrown(st, error) == [st EXCEPT !.error = error]

\* query[field] = <the string r resolved to>, unless r threw
Assign(st, field, r) ==
  IF IsDef(r.error)
  THEN [query |-> st.query, tracker |-> r.tracker, error |-> r.error]
  ELSE [query |-> [st.query EXCEPT ![field] = Def(r.str)], tracker |-> r.tracker,
        error |-> Undefined]

buildKeys_ConditionFirst(st, keys) ==
  IF IsDef(st.error) \/ ~IsDef(keys) THEN st
  ELSE LET k == Val(keys)
           partitionKeyCondition == Eq(A(NameOf(k.partitionKeyName)), Val(k.partitionKeyValue))
       IN  IF IsDef(k.sortKeyCondition)
           THEN Assign(st, "KeyConditionExpression",
                       Build(And(<<partitionKeyCondition, Val(k.sortKeyCondition)>>),
                             st.tracker))
           ELSE IF TruthyName(k.sortKeyName) /\ IsDef(k.sortKeyValue)
           THEN Assign(st, "KeyConditionExpression",
                       Build(And(<<partitionKeyCondition,
                                   Eq(A(Val(k.sortKeyName)), Val(k.sortKeyValue))>>),
                             st.tracker))
           ELSE Assign(st, "KeyConditionExpression",
                       Build(partitionKeyCondition, st.tracker))

\* QueryBuilder.buildKeys
buildKeys(st, keys) ==
  IF IsDef(st.error) \/ ~IsDef(keys) THEN st
  ELSE LET k == Val(keys)
           partitionKeyCondition == Eq(A(NameOf(k.partitionKeyName)), Val(k.partitionKeyValue))
       IN  IF TruthyName(k.sortKeyName) /\ IsDef(k.sortKeyValue)
           THEN Assign(st, "KeyConditionExpression",
                       Build(And(<<partitionKeyCondition,
                                   Eq(A(Val(k.sortKeyName)), Val(k.sortKeyValue))>>),
                             st.tracker))
           ELSE IF IsDef(k.sortKeyCondition)
           THEN Assign(st, "KeyConditionExpression",
                       Build(And(<<partitionKeyCondition, Val(k.sortKeyCondition)>>),
                             st.tracker))
           ELSE Assign(st, "KeyConditionExpression",
                       Build(partitionKeyCondition, st.tracker))

\* QueryBuilder.buildIndex
buildIndex(st, index) ==
  IF IsDef(st.error) THEN st
  ELSE IF IsDef(index) /\ TruthyStr(Val(index).indexName)
  THEN [st EXCEPT !.query.IndexName = Val(index).indexName]
  ELSE st

generateFilterExpression_AlwaysAnd(filters) ==
  And([i \in 1..Len(filters) |->
         IF Len(filters[i].values) = 1
         THEN Comparison(A(filters[i].key), "=", filters[i].values[1])
         ELSE Or([j \in 1..Len(filters[i].values) |->
                    Comparison(A(filters[i].key), "=", filters[i].values[j])])])

\* QueryBuilder.generateFilterExpression
generateFilterExpression(filters) ==
  LET comparisons ==
        [i \in 1..Len(filters) |->
           IF Len(filters[i].values) = 1
           THEN Comparison(A(filters[i].key), "=", filters[i].values[1])
           ELSE Or([j \in 1..Len(filters[i].values) |->
                      Comparison(A(filters[i].key), "=", filters[i].values[j])])]
  IN  IF Len(filters) = 1 THEN comparisons[1] ELSE And(comparisons)

\* QueryBuilder.buildFilter with generateFilterInput
buildFilter(st, filter) ==
  IF IsDef(st.error) \/ ~IsDef(filter) THEN st
  ELSE IF Len(Val(filter)) > 0
  THEN Assign(st, "FilterExpression",
              Build(generateFilterExpression(Val(filter)), st.tracker))
  ELSE [st EXCEPT !.query.FilterExpression = Undefined]

\* QueryBuilder.buildFilterExpression
buildFilterExpression(st, filterExpression) ==
  IF IsDef(st.error) \/ ~IsDef(filterExpression) THEN st
  ELSE Assign(st, "FilterExpression", Build(Val(filterExpression), st.tracker))

\* Set.add: insertion order kept, no element twice
SetAdd(seq, x) == IF \E i \in 1..Len(seq) : seq[i] = x THEN seq ELSE Append(seq, x)

RECURSIVE Dedup(_)
Dedup(seq) == IF Len(seq) = 0 THEN <<>> ELSE SetAdd(Dedup(SubSeq(seq, 1, Len(seq) - 1)), seq[Len(seq)])

generateProjectionExpression_NoSet(fields, keys, tracker) ==
  LET keyNames ==
        IF ~IsDef(keys) THEN <<>>
        ELSE <<NameOf(Val(keys).partitionKeyName)>>
             \o (IF TruthyName(Val(keys).sortKeyName)
                 THEN <<Val(Val(keys).sortKeyName)>> ELSE <<>>)
      names == fields \o keyNames
      r == GetEach(tracker, [i \in 1..Len(names) |-> A(names[i])])
  IN  Ok(Join(r.strs, ","), r.tracker)

\* QueryBuilder.generateProjectionExpression
generateProjectionExpression(fields, keys, tracker) ==
  LET keyNames ==
        IF ~IsDef(keys) THEN <<>>
        ELSE <<NameOf(Val(keys).partitionKeyName)>>
             \o (IF TruthyName(Val(keys).sortKeyName)
                 THEN <<Val(Val(keys).sortKeyName)>> ELSE <<>>)
      names == fields \o keyNames
      r == GetEach(tracker, [i \in 1..Len(names) |-> A(names[i])])
  IN  Ok(Join(Dedup(r.strs), ","), r.tracker)

\* QueryBuilder.buildFields
buildFields(st, fields, keys) ==
  IF IsDef(st.error) \/ ~IsDef(fields) THEN st
  ELSE Assign(st, "ProjectionExpression",
              generateProjectionExpression(Val(fields), keys, st.tracker))

\* QueryBuilder.buildPagination
buildPagination(st, pagination) ==
  IF IsDef(st.error) \/ ~IsDef(pagination) THEN st
  ELSE LET p == Val(pagination)
           q1 == [st.query EXCEPT !.Limit = p.pageSize]
           q2 == IF IsDef(p.lastEvaluatedKey)
                 THEN [q1 EXCEPT !.ExclusiveStartKey = p.lastEvaluatedKey] ELSE q1
           q3 == IF p.sortDir = Def("desc")
                 THEN [q2 EXCEPT !.ScanIndexForward = Def(FALSE)] ELSE q2
       IN  [st EXCEPT !.query = q3]

\* QueryBuilder.buildExpressionAttributeNamesAndValues
buildExpressionAttributeNamesAndValues(st, names, values) ==
  IF IsDef(st.error) THEN st
  ELSE LET q1 == IF DOMAIN names # {}
                 THEN [st.query EXCEPT !.ExpressionAttributeNames = Def(names)]
                 ELSE st.query
           q2 == IF DOMAIN values # {}
                 THEN [q1 EXCEPT !.ExpressionAttributeValues = Def(values)]
                 ELSE q1
       IN  [st EXCEPT !.query = q2]

\* what withRaw stored, as an object
RawOf(b) == IF IsDef(b.rawQueryOptions) THEN Val(b.rawQueryOptions) ELSE NoFields

MissingPartitionKey_ValueOnly(keys) ==
  ~IsDef(keys) \/ ~IsDef(Val(keys).partitionKeyValue)

\* !this.keys?.partitionKeyName || this.keys.partitionKeyValue === undefined
MissingPartitionKey(keys) ==
  \/ ~IsDef(keys)
  \/ ~TruthyName(Val(keys).partitionKeyName)
  \/ ~IsDef(Val(keys).partitionKeyValue)

\* QueryBuilder.build, from the partition key check on: the steps in their
\* order, each one working on what the step before it left (s0 .. s6)
BuildSteps(b, operation) ==
  LET tracker == NewTracker
  IN  IF operation = "query" /\ MissingPartitionKey(b.keys)
      THEN Thrown(Step(b.query, tracker),
                  Def("A key configuration using withKeys containing a partition key name and value is required for a query operation"))
      ELSE CHOOSE built \in
             { buildExpressionAttributeNamesAndValues(
                 s6, s6.tracker.attributeNames, s6.tracker.attributeValues) :
               s6 \in { buildPagination(s5, b.pagination) :
               s5 \in { buildFields(s4, b.fields, b.keys) :
               s4 \in { buildFilterExpression(s3, b.filterExpression) :
               s3 \in { buildFilter(s2, b.filter) :
               s2 \in { buildIndex(s1, b.index) :
               s1 \in { IF operation = "query" THEN buildKeys(s0, b.keys) ELSE s0 :
               s0 \in { Step(ObjectAssign(b.query, RawOf(b)), tracker) } } } } } } } } : TRUE

(***************************************************************************)
(* Actions on an AttributeTracker used on its own.                         *)
(***************************************************************************)
\* what tracker.get(value, alias) leaves: the tracker, and the call on record
Resolved(tr, log, value, alias) ==
  CHOOSE after \in
    { [tracker |-> r.tracker,
       log |-> Append(log, [before |-> tr, value |-> value, alias |-> alias,
                            str |-> IF IsDef(r.error) THEN Undefined ELSE Def(r.str),
                            error |-> r.error])] :
      r \in {Get(tr, value, alias)} } : TRUE

\* tracker.get(value, alias)
get(value, alias) ==
  /\ \E after \in {Resolved(attributeTracker, resolutions, value, alias)} :
       /\ attributeTracker' = after.tracker
       /\ resolutions' = after.log
  /\ UNCHANGED <<truncVars, fetchVars, builderVars>>

\* new AttributeTracker()
newTracker ==
  /\ resolutions # <<>>
  /\ attributeTracker' = NewTracker
  /\ resolutions' = <<>>
  /\ UNCHANGED <<truncVars, fetchVars, builderVars>>

(***************************************************************************)
(* Actions of the QueryBuilder: one per public method.                     *)
(***************************************************************************)
\* every with* method returns the builder itself
CallOk(call) ==
  [call |-> "with", operation |-> "", request |-> Undefined, error |-> Undefined]
CallThrew(call, message) ==
  [call |-> "with", operation |-> "", request |-> Undefined, error |-> Def(message)]

withIndex_Overwrites(indexParams) ==
  /\ builder' = [builder EXCEPT !.index = Def(indexParams)]
  /\ outcome' = CallOk("withIndex")
  /\ UNCHANGED <<truncVars, fetchVars, trackerVars>>

withIndex(indexParams) ==
  /\ IF IsDef(builder.index)
     THEN /\ outcome' = CallThrew("withIndex", "Only one index can be specified")
          /\ UNCHANGED builder
     ELSE /\ builder' = [builder EXCEPT !.index = Def(indexParams)]
          /\ outcome' = CallOk("withIndex")
  /\ UNCHANGED <<truncVars, fetchVars, trackerVars>>

withKeys(keyParams) ==
  /\ IF IsDef(builder.keys)
     THEN /\ outcome' = CallThrew("withKeys", "Keys can only be specified once per query")
          /\ UNCHANGED builder
     ELSE /\ builder' = [builder EXCEPT !.keys = Def(keyParams)]
          /\ outcome' = CallOk("withKeys")
  /\ UNCHANGED <<truncVars, fetchVars, trackerVars>>

withFields(fields) ==
  /\ builder' = [builder EXCEPT !.fields = Def(fields)]
  /\ outcome' = CallOk("withFields")
  /\ UNCHANGED <<truncVars, fetchVars, trackerVars>>

withFilter_NoExpressionCheck(filterParams) ==
  /\ IF IsDef(builder.filter)
     THEN /\ outcome' = CallThrew("withFilter",
                          "Only 1 filter or filter expression can be applied per query")
          /\ UNCHANGED builder
     ELSE /\ builder' = IF IsDef(filterParams)
                        THEN [builder EXCEPT !.filter = filterParams]
                        ELSE builder
          /\ outcome' = CallOk("withFilter")
  /\ UNCHANGED <<truncVars, fetchVars, trackerVars>>

withFilter(filterParams) ==
  /\ IF IsDef(builder.filter) \/ IsDef(builder.filterExpression)
     THEN /\ outcome' = CallThrew("withFilter",
                          "Only 1 filter or filter expression can be applied per query")
          /\ UNCHANGED builder
     ELSE /\ builder' = IF IsDef(filterParams)
                        THEN [builder EXCEPT !.filter = filterParams]
                        ELSE builder
          /\ outcome' = CallOk("withFilter")
  /\ UNCHANGED <<truncVars, fetchVars, trackerVars>>

withFilterExpression(filterExpression) ==
  /\ IF IsDef(builder.filter) \/ IsDef(builder.filterExpression)
     THEN /\ outcome' = CallThrew("withFilterExpression",
                          "Only 1 filter or filter expression can be applied per query")
          /\ UNCHANGED builder
     ELSE /\ builder' = IF IsDef(filterExpression)
                        THEN [builder EXCEPT !.filterExpression = filterExpression]
                        ELSE builder
          /\ outcome' = CallOk("withFilterExpression")
  /\ UNCHANGED <<truncVars, fetchVars, trackerVars>>

withPagination(paginationOptions) ==
  /\ builder' = [builder EXCEPT !.pagination = paginationOptions]
  /\ outcome' = CallOk("withPagination")
  /\ UNCHANGED <<truncVars, fetchVars, trackerVars>>

withRaw(additionalQueryOptions) ==
  /\ builder' = [builder EXCEPT !.rawQueryOptions = Def(additionalQueryOptions)]
  /\ outcome' = CallOk("withRaw")
  /\ UNCHANGED <<truncVars, fetchVars, trackerVars>>

\* build(operation): the request it returns is this.query itself
build(operation) ==
  /\ \E st \in {BuildSteps(builder, operation)} :
         /\ builder' = [builder EXCEPT !.tracker = st.tracker, !.query = st.query]
         /\ outcome' = [call |-> "build", operation |-> operation,
                        request |-> IF IsDef(st.error) THEN Undefined ELSE Def(st.query),
                        error |-> st.error]
  /\ UNCHANGED <<truncVars, fetchVars, trackerVars>>

(***************************************************************************)
(* The arguments the builder is driven with.                               *)
(***************************************************************************)
TableName == "table"

KeyParams(pkName, pkValue, skName, skValue, skCondition) ==
  [partitionKeyName |-> pkName, partitionKeyValue |-> pkValue, sortKeyName |-> skName,
   sortKeyValue |-> skValue, sortKeyCondition |-> skCondition]

KeysPkSk ==
  KeyParams(Def(<<"pk">>), Def(Str("myPk")), Def(<<"sk">>), Def(Str("mySk")), Undefined)

PaginationOptions(pageSize, lastEvaluatedKey, sortDir) ==
  [pageSize |-> pageSize, lastEvaluatedKey |-> lastEvaluatedKey, sortDir |-> sortDir]

\* a field the builder does not write, and a name map of the caller's own
RawCustom ==
  [NoFields EXCEPT !.ConsistentRead = Def(TRUE),
                   !.ExpressionAttributeNames = Def(Put(EmptyMap, "#foo", "foo"))]
\* a raw override of every field the builder writes
RawConflicting ==
  [TableName |-> Def("rawTable"),
   KeyConditionExpression |-> Def("#raw = :raw0"),
   IndexName |-> Def("rawIndex"),
   FilterExpression |-> Def("#raw <> :raw0"),
   ProjectionExpression |-> Def("#raw"),
   Limit |-> Def(99),
   ExclusiveStartKey |-> Def("rawKey"),
   ScanIndexForward |-> Def(TRUE),
   ExpressionAttributeNames |-> Def(Put(EmptyMap, "#raw", "raw")),
   ExpressionAttributeValues |-> Def(Put(EmptyMap, ":raw0", Str("raw"))),
   ConsistentRead |-> Undefined]

IndexPool == {[indexName |-> Def("gsiName")]}
KeysPool == {KeysPkSk}
FieldsPool == {<< <<"pk">>, <<"a">> >>}
FilterPool == {Def(<<[key |-> <<"f1">>, values |-> <<Str("v1")>>]>>)}
FilterExpressionPool == {Def(Eq(A(<<"x">>), Num("1")))}
PaginationPool ==
  {Undefined,
   Def(PaginationOptions(Def(2), Def("key1"), Def("desc"))),
   Def(PaginationOptions(Undefined, Undefined, Def("asc")))}
RawPool == {RawCustom, RawConflicting}
Operations == {"query", "scan"}

(***************************************************************************)
(* Key schemas, indexes and projections: the arguments of the runs that    *)
(* are about withKeys, withIndex and withFields.                           *)
(***************************************************************************)
KeysPk ==
  KeyParams(Def(<<"pk">>), Def(Str("myPk")), Undefined, Undefined, Undefined)
KeysBeginsWith ==
  KeyParams(Def(<<"pk">>), Def(Str("myPk")), Undefined, Undefined,
            Def(BeginsWith(A(<<"sk">>), "tenant#abc")))
\* a sort key name without a value, and a condition on the sort key
KeysNameAndCondition ==
  KeyParams(Def(<<"pk">>), Def(Str("myPk")), Def(<<"sk">>), Undefined,
            Def(KeyConditionComparison(<<"sk">>, ">", Str("m"))))
\* a sort key name and value, and a condition as well
KeysValueAndCondition ==
  KeyParams(Def(<<"pk">>), Def(Str("myPk")), Def(<<"sk">>), Def(Str("mySk")),
            Def(BeginsWith(A(<<"sk">>), "tenant#abc")))
KeysSortNameOnly ==
  KeyParams(Def(<<"pk">>), Def(Str("myPk")), Def(<<"sk">>), Undefined, Undefined)
KeysSortValueOnly ==
  KeyParams(Def(<<"pk">>), Def(Str("myPk")), Undefined, Def(Str("mySk")), Undefined)
\* { partitionKeyValue: "myPk" } as any
\* an empty sort key name with a value, and a condition on the sort key
KeysEmptySortName ==
  KeyParams(Def(<<"pk">>), Def(Str("myPk")), Def(<<>>), Def(Str("mySk")),
            Def(KeyConditionComparison(<<"sk">>, ">", Str("m"))))
KeysNoName == KeyParams(Undefined, Def(Str("myPk")), Undefined, Undefined, Undefined)
KeysEmptyName == KeyParams(Def(<<>>), Def(Str("myPk")), Undefined, Undefined, Undefined)
\* { partitionKeyName: "pk" } as any
KeysNoValue == KeyParams(Def(<<"pk">>), Undefined, Undefined, Undefined, Undefined)
\* { indexName: "secondary" } as any
KeysNothing == KeyParams(Undefined, Undefined, Undefined, Undefined, Undefined)

KeySchemas ==
  {KeysPk, KeysPkSk, KeysBeginsWith, KeysNameAndCondition, KeysValueAndCondition,
   KeysSortNameOnly, KeysSortValueOnly, KeysEmptySortName, KeysNoName, KeysEmptyName, KeysNoValue,
   KeysNothing}
Indexes == {[indexName |-> Def("gsiName")], [indexName |-> Def("lsiName")]}
FieldLists ==
  {<<>>, << <<"foo">>, <<"bar">> >>, << <<"pk">>, <<"foo">> >>,
   << <<"foo">>, <<"sk">>, <<"foo">> >>}

(***************************************************************************)
(* Pagination options: the arguments of the runs that are about            *)
(* withPagination.                                                         *)
(***************************************************************************)
Paginations ==
  {Undefined,
   Def(PaginationOptions(Def(2), Undefined, Undefined)),
   Def(PaginationOptions(Undefined, Undefined, Def("desc"))),
   Def(PaginationOptions(Undefined, Undefined, Def("asc"))),
   Def(PaginationOptions(Def(2), Def("key1"), Def("desc"))),
   Def(PaginationOptions(Def(5), Def("key2"), Def("asc")))}

(***************************************************************************)
(* Filters: the arguments of the runs that are about withFilter and        *)
(* withFilterExpression.  A filter map is the sequence of its entries, in  *)
(* the order Object.entries gives them.                                    *)
(***************************************************************************)
Entry(key, values) == [key |-> key, values |-> values]

FilterMaps ==
  {Undefined,
   Def(<<>>),
   Def(<<Entry(<<"customField">>, <<Str("value1")>>)>>),
   Def(<<Entry(<<"customField">>, <<Str("value1"), Str("value2")>>)>>),
   Def(<<Entry(<<"foo">>, <<Str("value1")>>),
         Entry(<<"bar">>, <<Str("value2"), Str("value3")>>),
         Entry(<<"baz">>, <<Str("value4")>>)>>),
   Def(<<Entry(<<"foo">>, <<Str("value1")>>), Entry(<<"foo2">>, <<Str("value1")>>)>>),
   Def(<<Entry(<<"customField">>, <<>>)>>)}

FilterExpressions ==
  {Undefined,
   Def(Comparison(A(<<"customField">>), "=", Str("value1"))),
   Def(Not(Or(<<Eq(A(<<"customField">>), Str("value1")),
                Eq(A(<<"customField">>), Str("value2"))>>))),
   Def(And(<<Eq(A(<<"customField">>), Str("value1"))>>))}

(***************************************************************************)
(* Operands and aliases handed to a tracker.                               *)
(***************************************************************************)
Call(value, alias) == [value |-> value, alias |-> alias]

NameCalls ==
  {Call(A(name), alias) : name \in {<<"a">>, <<"b">>},
                          alias \in {Undefined, Def("x"), Def("a")}}
LiteralCalls ==
  {Call(value, alias) : value \in {Str("v"), DateOf("12/12/2023Z")},
                        alias \in {Undefined, Def("x"), Def("x1")}}
LeafCalls == NameCalls \cup LiteralCalls

(***************************************************************************)
(* Conditions and dotted names handed to a tracker.                        *)
(***************************************************************************)
Nested == <<"parent", "nested">>
PropNot1 == Comparison(A(<<"propA">>), "<>", Num("1"))
PropNot2 == Comparison(A(<<"propA">>), "<>", Num("2"))

Conditions ==
  {A(Nested),
   Comparison(A(Nested), "=", Str("v")),
   Between(A(Nested), Num("0"), Num("10")),
   In(A(Nested), <<Str("v"), Str("w")>>),
   Exists(Nested),
   Contains(Nested, Str("abc")),
   Type(Nested, "list"),
   Comparison(A(<<"propA">>), "<", Size(Nested)),
   And(<<>>), And(<<PropNot1>>), And(<<PropNot1, PropNot2>>),
   And(<<PropNot1, PropNot2, PropNot2>>),
   Or(<<>>), Or(<<PropNot1>>), Or(<<PropNot1, PropNot2>>),
   And(<<Or(<<PropNot1, PropNot2>>), Not(PropNot1)>>),
   Or(<<PropNot1, And(<<PropNot2>>)>>)}

(***************************************************************************)
(* ExampleDynamoRepository.getExampleDataItemsByEmail and                  *)
(* ExampleDataService.getDataItemsByEmail.  An object literal is the       *)
(* function from the keys it has to their values: a key that is there with *)
(* the value undefined is not a key that is missing.                       *)
(***************************************************************************)
\* o.k
Prop(o, k) == IF k \in DOMAIN o THEN o[k] ELSE Undefined
\* { ...a, ...b }
Spread(a, b) == [k \in DOMAIN a \cup DOMAIN b |-> IF k \in DOMAIN b THEN b[k] ELSE a[k]]
\* ...o of an object that may be undefined
OwnProps(o) == IF IsDef(o) THEN Val(o) ELSE EmptyMap

DefaultPageSize == 25

\* const options = { pageSize: 25, sortDir: "desc", ...paginationOptions }
options(paginationOptions) ==
  Spread(("pageSize" :> Def(DefaultPageSize)) @@ ("sortDir" :> Def("desc")),
         OwnProps(paginationOptions))

\* the builder getExampleDataItemsByEmail makes and configures
EmailBuilder(tenantId, email, paginationOptions) ==
  [NewBuilder(TableName) EXCEPT
     !.index = Def([indexName |-> Def("emailIndex")]),
     !.keys = Def(KeyParams(Def(<<"email">>), Def(Str(email)), Undefined, Undefined, Undefined)),
     !.filter = Def(<<Entry(<<"pk">>, <<Str("TENANT#" \o tenantId)>>)>>),
     !.pagination = Def(PaginationOptions(Prop(options(paginationOptions), "pageSize"),
                                          Prop(options(paginationOptions), "lastEvaluatedKey"),
                                          Prop(options(paginationOptions), "sortDir")))]

\* the cursors a caller may hand in, with the start key each encodes
Cursors == ("eyJwayI6Im15UGsifQ" :> "key1")
\* ExampleDataService.decodeCursor
decodeCursor(input) ==
  IF ~IsDef(input) THEN Undefined
  ELSE IF Val(input) \in DOMAIN Cursors THEN Def(Cursors[Val(input)])
  ELSE Undefined

\* getExampleDataItemsByEmail, up to the first send of queryWithPagination:
\* the query is built on a builder of its own and handed to queryAll.  entry
\* and input keep, for the properties, who was called and with what.
Issue(tenantId, email, paginationOptions, entry, input) ==
  /\ \E b \in {EmailBuilder(tenantId, email, paginationOptions)} :
       \E st \in {BuildSteps(b, "query")} :
          /\ builder' = [b EXCEPT !.tracker = st.tracker, !.query = st.query]
          /\ outcome' = [call |-> "getExampleDataItemsByEmail", operation |-> "query",
                         request |-> IF IsDef(st.error) THEN Undefined ELSE Def(st.query),
                         error |-> st.error, entry |-> entry, input |-> input]
          /\ fetch' = [fetch EXCEPT ![Pager] =
                         IF IsDef(st.error) THEN Idle
                         ELSE [Idle EXCEPT !.pc = "await", !.api = "queryWithPagination",
                                           !.calls = <<FirstCommand("queryAll", st.query)>>]]
  /\ UNCHANGED <<truncVars, request, script, trackerVars>>

\* ExampleDynamoRepository.getExampleDataItemsByEmail
getExampleDataItemsByEmail(tenantId, email, paginationOptions) ==
  Issue(tenantId, email, paginationOptions, "repository", paginationOptions)

\* ExampleDataService.getDataItemsByEmail, for input the schema accepts
getDataItemsByEmail(tenantId, email, paginationInput) ==
  Issue(tenantId, email,
        Def(("pageSize" :> Prop(OwnProps(paginationInput), "pageSize"))
            @@ ("sortDir" :> Prop(OwnProps(paginationInput), "sortDir"))
            @@ ("lastEvaluatedKey" :> decodeCursor(Prop(OwnProps(paginationInput), "cursor")))),
        "service", paginationInput)

Tenants == {"t1", "t2"}
Emails == {"test@email.com", "other@email.com"}
\* what a caller of the repository may pass: nothing, or an object with some
\* of the keys, set or undefined
PaginationOptionsInputs ==
  {Undefined} \cup
  {Def([k \in keys |-> CASE k = "pageSize" -> pageSize
                         [] k = "sortDir" -> sortDir
                         [] OTHER -> lastEvaluatedKey]) :
     keys \in SUBSET {"pageSize", "sortDir", "lastEvaluatedKey"},
     pageSize \in {Undefined, Def(10)},
     sortDir \in {Undefined, Def("asc"), Def("desc")},
     lastEvaluatedKey \in {Undefined, Def("key1")}}
\* what a caller of the service may pass: nothing, or a Pagination
PaginationInputs ==
  {Undefined} \cup
  {Def([k \in keys |-> CASE k = "pageSize" -> pageSize
                         [] k = "sortDir" -> sortDir
                         [] OTHER -> cursor]) :
     keys \in SUBSET {"pageSize", "sortDir", "cursor"},
     pageSize \in {Def(10)},
     sortDir \in {Def("asc"), Def("desc")},
     cursor \in {Def("eyJwayI6Im15UGsifQ"), Def("abc")}}

(***************************************************************************)
(* hasResultBeenTruncated called on its own.                               *)
(***************************************************************************)
Counts == {Undefined} \cup {Def(n) : n \in 0..MaxCount}

CallTruncated ==
  /\ truncOut = Undefined
  /\ truncOut' = Def(hasResultBeenTruncated(truncIn.limit, truncIn.count, truncIn.key))
  /\ UNCHANGED <<truncIn, fetchVars, builderVars, trackerVars>>

(***************************************************************************)
(* Specifications.                                                         *)
(***************************************************************************)
FetchIdle ==
  /\ request = [TableName |-> "foo", Limit |-> Undefined, ExclusiveStartKey |-> Undefined]
  /\ script = [k \in 1..MaxPages |-> Undefined]
  /\ fetch = [p \in Procs |-> Idle]

TruncIdle ==
  /\ truncIn = [limit |-> Undefined, count |-> Undefined, key |-> Undefined]
  /\ truncOut = Undefined

BuilderIdle ==
  /\ builder = NewBuilder(TableName)
  /\ outcome = CallOk("constructor")

TrackerIdle ==
  /\ attributeTracker = NewTracker
  /\ resolutions = <<>>

TruncInit ==
  /\ truncIn \in [limit : Limits, count : Counts, key : Tokens]
  /\ truncOut = Undefined
  /\ FetchIdle
  /\ BuilderIdle
  /\ TrackerIdle

TruncNext == CallTruncated

TruncSpec == TruncInit /\ [][TruncNext]_vars

FetchInit ==
  /\ TruncIdle
  /\ request \in QueryInputs
  /\ script = [k \in 1..MaxPages |-> Undefined]
  /\ fetch = [p \in Procs |-> Idle]
  /\ BuilderIdle
  /\ TrackerIdle

FetchNext ==
  \/ queryWithPagination
  \/ queryWithAggregation
  \/ scanWithAggregation
  \/ \E p \in Procs : StoreAnswer(p)

FetchSpec == FetchInit /\ [][FetchNext]_vars

\* the fetches against a store whose data ends and that answers every call:
\* a pending send is settled sooner or later
LiveNext ==
  \/ queryWithPagination
  \/ queryWithAggregation
  \/ scanWithAggregation
  \/ \E p \in Procs : FiniteAnswer(p)

\* no limit, or a limit the pages of the store can reach
LiveInit ==
  /\ FetchInit
  /\ request.Limit \in {Undefined} \cup {Def(n) : n \in 0..MaxPages}

LiveSpec ==
  LiveInit /\ [][LiveNext]_vars /\ \A p \in Procs : WF_vars(FiniteAnswer(p))

BuilderInit ==
  /\ TruncIdle
  /\ FetchIdle
  /\ BuilderIdle
  /\ TrackerIdle

BuilderNext ==
  \/ \E indexParams \in IndexPool : withIndex(indexParams)
  \/ \E keyParams \in KeysPool : withKeys(keyParams)
  \/ \E fields \in FieldsPool : withFields(fields)
  \/ \E filterParams \in FilterPool : withFilter(filterParams)
  \/ \E filterExpression \in FilterExpressionPool : withFilterExpression(filterExpression)
  \/ \E paginationOptions \in PaginationPool : withPagination(paginationOptions)
  \/ \E additionalQueryOptions \in RawPool : withRaw(additionalQueryOptions)
  \/ \E operation \in Operations : build(operation)

BuilderSpec == BuilderInit /\ [][BuilderNext]_vars

KeysNext ==
  \/ \E indexParams \in Indexes : withIndex(indexParams)
  \/ \E keyParams \in KeySchemas : withKeys(keyParams)
  \/ \E fields \in FieldLists : withFields(fields)
  \/ \E operation \in Operations : build(operation)

KeysSpec == BuilderInit /\ [][KeysNext]_vars

\* pagination options set and replaced between builds
PageNext ==
  \/ \E keyParams \in {KeysPk} : withKeys(keyParams)
  \/ \E paginationOptions \in Paginations : withPagination(paginationOptions)
  \/ \E operation \in Operations : build(operation)

PageSpec == BuilderInit /\ [][PageNext]_vars

FilterNext ==
  \/ \E keyParams \in {KeysPk} : withKeys(keyParams)
  \/ \E filterParams \in FilterMaps : withFilter(filterParams)
  \/ \E filterExpression \in FilterExpressions : withFilterExpression(filterExpression)
  \/ \E operation \in Operations : build(operation)

FilterSpec == BuilderInit /\ [][FilterNext]_vars

\* the literal a long run of resolutions repeats
Repeated == Call(Str("v"), Undefined)

\* the calls of a record beyond its first one and the run of Repeated after it
RECURSIVE Run(_, _)
Run(log, i) ==
  IF i <= Len(log) /\ i <= MaxRepeats + 1 /\ Call(log[i].value, log[i].alias) = Repeated
  THEN 1 + Run(log, i + 1) ELSE 0
Extras(log) == IF Len(log) <= 1 THEN 0 ELSE Len(log) - 1 - Run(log, 2)

LeafInit ==
  /\ TruncIdle
  /\ FetchIdle
  /\ BuilderIdle
  /\ TrackerIdle

\* any operand, the same literal up to MaxRepeats times, and MaxGets more calls
LeafNext ==
  \/ \E call \in LeafCalls :
       /\ Extras(Append(resolutions, call)) <= MaxGets
       /\ get(call.value, call.alias)
  \/ newTracker

LeafSpec == LeafInit /\ [][LeafNext]_vars

\* conditions and dotted names compiled one after the other on one tracker
CompileNext ==
  \/ \E value \in Conditions :
       /\ Len(resolutions) < MaxGets
       /\ get(value, Undefined)
  \/ newTracker

CompileSpec == LeafInit /\ [][CompileNext]_vars

\* the items of an email looked up through the repository and the service
EmailNext ==
  \/ \E tenantId \in Tenants, email \in Emails, paginationOptions \in PaginationOptionsInputs :
       getExampleDataItemsByEmail(tenantId, email, paginationOptions)
  \/ \E tenantId \in Tenants, email \in Emails, paginationInput \in PaginationInputs :
       getDataItemsByEmail(tenantId, email, paginationInput)

EmailSpec == BuilderInit /\ [][EmailNext]_vars

(***************************************************************************)
(* What a run shows of the store's side: the n-th response a fetch got is  *)
(* the page its n-th call asked for.                                       *)
(***************************************************************************)
Resp(p, n) == Val(script[PageOf(fetch[p].calls[n].input)])

\* the number of items in the first n responses of p
RECURSIVE Acc(_, _)
Acc(p, n) == IF n = 0 THEN 0 ELSE Acc(p, n - 1) + Len(OrEmpty(Resp(p, n).Items))

\* the items of the first n responses of p, in call order
RECURSIVE Concat(_, _)
Concat(p, n) == IF n = 0 THEN <<>> ELSE Concat(p, n - 1) \o OrEmpty(Resp(p, n).Items)

Started(p) == fetch[p].pc # "idle"
NCalls(p) == Len(fetch[p].calls)

(***************************************************************************)
(* C1. hasResultBeenTruncated(limit, count, token): with a limit > 0 it is *)
(* true exactly when a token is present and count < limit; with the limit  *)
(* absent, 0 or negative it is true exactly when a token is present; an    *)
(* absent count counts as 0.                                               *)
(***************************************************************************)
C1_TruncationRule ==
  IsDef(truncOut) =>
    LET count == IF IsDef(truncIn.count) THEN Val(truncIn.count) ELSE 0
        present == truncIn.key # Undefined
        positive == truncIn.limit # Undefined /\ Val(truncIn.limit) > 0
    IN  Val(truncOut) = ((positive /\ present /\ count < Val(truncIn.limit))
                         \/ (~positive /\ present))

C1_Witness ==
  /\ truncOut = Def(FALSE)
  /\ truncIn.key # Undefined
  /\ truncIn.limit # Undefined /\ Val(truncIn.limit) > 0
  /\ truncIn.count # Undefined /\ Val(truncIn.count) = Val(truncIn.limit)

(***************************************************************************)
(* C2. The store calls of one fetch are sequential: call n+1 is issued     *)
(* only after response n, starts at response n's continuation token and    *)
(* asks for the requested limit less the items of responses 1..n (no limit *)
(* when none was requested); the first call is the caller's request.       *)
(***************************************************************************)
\* the shape every call sequence has, whatever "a limit was requested" means
C2_Sequential(p) ==
  /\ NCalls(p) <= fetch[p].nresp + 1
  /\ (fetch[p].pc = "await") = (NCalls(p) = fetch[p].nresp + 1)
  /\ Started(p) => fetch[p].calls[1].input = request
  /\ \A n \in 1..(NCalls(p) - 1) :
       fetch[p].calls[n + 1].input.ExclusiveStartKey = Resp(p, n).LastEvaluatedKey

\* as claimed: a limit was requested whenever the request carries one
C2_Original ==
  \A p \in Procs :
    /\ C2_Sequential(p)
    /\ \A n \in 1..(NCalls(p) - 1) :
         fetch[p].calls[n + 1].input.Limit =
           IF request.Limit # Undefined
           THEN Def(Val(request.Limit) - Acc(p, n))
           ELSE Undefined

\* as the code has it: a limit of 0 counts as no limit
C2_SequentialCalls ==
  \A p \in Procs :
    /\ C2_Sequential(p)
    /\ \A n \in 1..(NCalls(p) - 1) :
         fetch[p].calls[n + 1].input.Limit =
           IF request.Limit # Undefined /\ Val(request.Limit) # 0
           THEN Def(Val(request.Limit) - Acc(p, n))
           ELSE Undefined

C2_Witness ==
  \E p \in Procs :
    /\ NCalls(p) = 3
    /\ request.Limit # Undefined /\ Val(request.Limit) > 0
    /\ Acc(p, 2) > Acc(p, 1) /\ Acc(p, 1) > 0
    /\ fetch[p].calls[3].input.Limit = Def(Val(request.Limit) - Acc(p, 2))

(***************************************************************************)
(* C3. fetchPage issues exactly k store calls, k the first response after  *)
(* which no continuation token is present or (with a limit L > 0) the      *)
(* accumulated item count is >= L: no call after it, no stop before it.    *)
(* Pages of 3, 3, 3 items with tokens after pages 1 and 2: L = 3 gives 1   *)
(* call and 3 items, L = 6 gives 2 and 6, L = 10 gives 3 and 9, no limit   *)
(* gives 3 and 9.                                                          *)
(***************************************************************************)
\* response n of p ends the fetch
Stops(p, n) ==
  \/ Resp(p, n).LastEvaluatedKey = Undefined
  \/ /\ request.Limit # Undefined
     /\ Val(request.Limit) > 0
     /\ Acc(p, n) >= Val(request.Limit)

\* the store of the repository's paging test, as far as it has been read
PagingTestPage(k) ==
  [error |-> Undefined, Items |-> Def(PageItems(k, 3)),
   LastEvaluatedKey |-> IF k < 3 THEN Def(k) ELSE Undefined]

PagingTestStore ==
  /\ request.ExclusiveStartKey = Undefined
  /\ \A k \in 1..3 : script[k] # Undefined => Val(script[k]) = PagingTestPage(k)

PagingTestOutcome(limit, ncalls, nitems) ==
  (PagingTestStore /\ request.Limit = limit /\ fetch[Pager].pc = "done")
    => (NCalls(Pager) = ncalls /\ Len(Val(fetch[Pager].returned).items) = nitems)

C3_ExactlyKCalls ==
  /\ \A n \in 1..fetch[Pager].nresp :
       Resp(Pager, n).error = Undefined =>
         IF Stops(Pager, n)
         THEN fetch[Pager].pc = "done" /\ NCalls(Pager) = n /\ fetch[Pager].nresp = n
         ELSE NCalls(Pager) >= n + 1
  /\ PagingTestOutcome(Def(3), 1, 3)
  /\ PagingTestOutcome(Def(6), 2, 6)
  /\ PagingTestOutcome(Def(10), 3, 9)
  /\ PagingTestOutcome(Undefined, 3, 9)

C3_Witness ==
  /\ PagingTestStore
  /\ request.Limit = Def(6)
  /\ fetch[Pager].pc = "done"
  /\ NCalls(Pager) = 2
  /\ Len(Val(fetch[Pager].returned).items) = 6

(***************************************************************************)
(* C4. The continuation token fetchPage returns is the one of the last     *)
(* store response of the fetch: present only when the fetch stopped at the *)
(* requested limit, absent when the store reported no more data.           *)
(***************************************************************************)
C4_ReturnsLastToken ==
  fetch[Pager].pc = "done" =>
    LET last == Resp(Pager, fetch[Pager].nresp)
        out == Val(fetch[Pager].returned)
    IN  /\ fetch[Pager].nresp = NCalls(Pager)
        /\ out.lastEvaluatedKey = last.LastEvaluatedKey
        /\ out.lastEvaluatedKey # Undefined =>
             /\ request.Limit # Undefined
             /\ Val(request.Limit) > 0
             /\ Acc(Pager, fetch[Pager].nresp) >= Val(request.Limit)

C4_Witness ==
  /\ fetch[Pager].pc = "done"
  /\ fetch[Pager].nresp = 2
  /\ Val(fetch[Pager].returned).lastEvaluatedKey = Resp(Pager, 2).LastEvaluatedKey
  /\ Val(fetch[Pager].returned).lastEvaluatedKey # Undefined

(***************************************************************************)
(* C5. For the same request and the same store responses fetchAll          *)
(* (queryWithAggregation, scanWithAggregation) issues the same store calls *)
(* and returns the same items as fetchPage, without the continuation       *)
(* token; with no limit it returns the items of every page up to and       *)
(* including the first response without a continuation token.              *)
(***************************************************************************)
Inputs(p) == [n \in 1..NCalls(p) |-> fetch[p].calls[n].input]

C6_SameOperationKind ==
  \A p \in Procs :
    \A n \in 1..NCalls(p) :
      fetch[p].calls[n].cmd =
        IF fetch[p].api = "scanWithAggregation" THEN "ScanCommand" ELSE "QueryCommand"

(***************************************************************************)
(* C7. If a store call of a fetch fails, on the first page or on a         *)
(* follow-up, the fetch ends with that failure: no further store call, the *)
(* error as the store gave it, no partial item list returned.              *)
(***************************************************************************)
C7_StoreErrorPropagates ==
  \A p \in Procs :
    \A n \in 1..fetch[p].nresp :
      Resp(p, n).error # Undefined =>
        /\ fetch[p].pc = "failed"
        /\ fetch[p].nresp = n
        /\ NCalls(p) = n
        /\ fetch[p].thrown = Resp(p, n).error
        /\ fetch[p].returned = Undefined

C7_Witness ==
  \E p \in Procs :
    /\ fetch[p].pc = "failed"
    /\ fetch[p].nresp = 2
    /\ fetch[p].items # <<>>
    /\ fetch[p].thrown = Resp(p, 2).error
    /\ fetch[p].returned = Undefined

\* A build that returned a request.
Built == outcome.call = "build" /\ IsDef(outcome.request)

\* A builder constructed just now and given the configuration b holds.
FreshBuilder(b) ==
  [NewBuilder(b.tableName) EXCEPT !.index = b.index, !.keys = b.keys, !.filter = b.filter,
     !.filterExpression = b.filterExpression, !.fields = b.fields,
     !.pagination = b.pagination, !.rawQueryOptions = b.rawQueryOptions]

\* C8: every build of a builder returns the request a fresh builder with the
\* same configuration returns for the same operation: nothing of an earlier
\* build is left in a later one.
C8_BuildsIndependent ==
  Built => Val(outcome.request) = BuildSteps(FreshBuilder(builder), outcome.operation).query

\* The request fields the builder itself writes.
BuilderFields == RequestFields \ {"ConsistentRead"}

\* What the builder derives on its own: the request of the same
\* configuration without raw overrides.
Derived(b, operation) ==
  BuildSteps([FreshBuilder(b) EXCEPT !.rawQueryOptions = Undefined], operation).query

\* C9: wherever a raw override and the builder both determine a field, the
\* built request carries the builder-derived value, never the raw one; the
\* name map of a build that used placeholders is the builder's map, with no
\* raw entry merged in.
C9_RawOverridesAreWeakest ==
  (Built /\ IsDef(builder.rawQueryOptions)) =>
     \A f \in BuilderFields :
        (IsDef(Derived(builder, outcome.operation)[f]) /\ IsDef(RawOf(builder)[f]))
           => Val(outcome.request)[f] = Derived(builder, outcome.operation)[f]

\* C10: every built request carries the table name the builder was
\* constructed with.
C10_TableNameIsConstructed ==
  Built => Val(outcome.request).TableName = Def(builder.tableName)

(***************************************************************************)
(* Key schemas, indexes and projections.                                   *)
(***************************************************************************)
BuildOf(operation) == outcome.call = "build" /\ outcome.operation = operation

\* no keys, no (or an empty) partition key name, or no partition key value
NoPartitionKey(b) ==
  \/ b.keys = Undefined
  \/ Val(b.keys).partitionKeyName \in {Undefined, Def(<<>>)}
  \/ Val(b.keys).partitionKeyValue = Undefined

\* C11: build("query") fails, returning no request, whenever the builder has
\* no keys, no or an empty partition key name, or no partition key value; a
\* build("scan") succeeds whatever the keys are, on the very builder a
\* build("query") has just failed on too.
C11_QueryRequiresPartitionKey ==
  /\ (BuildOf("query") /\ NoPartitionKey(builder))
       => /\ IsDef(outcome.error) /\ ~IsDef(outcome.request)
          /\ ~IsDef(BuildSteps(builder, "scan").error)
  /\ BuildOf("scan") => (~IsDef(outcome.error) /\ IsDef(outcome.request))

C11_Witness ==
  /\ BuildOf("query") /\ IsDef(outcome.error)
  /\ builder.keys = Def(KeysEmptyName)
  /\ ~IsDef(BuildSteps(builder, "scan").error)

\* C12: withIndex succeeds on a builder without an index and sets it; on a
\* builder that has one it fails with a validation error and leaves the index
\* as the first call set it. withKeys likewise, for the keys.
C12_IndexAndKeysOnce ==
  [][/\ \A indexParams \in Indexes :
          withIndex(indexParams) =>
            IF builder.index = Undefined
            THEN builder'.index = Def(indexParams) /\ outcome'.error = Undefined
            ELSE builder' = builder /\ IsDef(outcome'.error)
     /\ \A keyParams \in KeySchemas :
          withKeys(keyParams) =>
            IF builder.keys = Undefined
            THEN builder'.keys = Def(keyParams) /\ outcome'.error = Undefined
            ELSE builder' = builder /\ IsDef(outcome'.error)
     /\ builder.index # Undefined => builder'.index = builder.index
     /\ builder.keys # Undefined => builder'.keys = builder.keys]_vars

C12_Witness ==
  /\ outcome.error = Def("Only one index can be specified")
  /\ builder.index = Def([indexName |-> Def("lsiName")])
  /\ builder.keys = Def(KeysPk)

(***************************************************************************)
(* Filters.                                                                *)
(***************************************************************************)
FilterSet(b) == b.filter # Undefined \/ b.filterExpression # Undefined

\* C13: a builder never holds a simple filter and a filter expression at
\* once, and once it holds either, every withFilter and withFilterExpression
\* call fails with a validation error and leaves both as they were.
C13_FiltersExclusive ==
  /\ [](builder.filter = Undefined \/ builder.filterExpression = Undefined)
  /\ [][/\ \A filterParams \in FilterMaps :
             (FilterSet(builder) /\ withFilter(filterParams))
                => (builder' = builder /\ IsDef(outcome'.error))
        /\ \A filterExpression \in FilterExpressions :
             (FilterSet(builder) /\ withFilterExpression(filterExpression))
                => (builder' = builder /\ IsDef(outcome'.error))
        /\ FilterSet(builder)
             => /\ builder'.filter = builder.filter
                /\ builder'.filterExpression = builder.filterExpression]_vars

C13_Witness ==
  /\ outcome.error = Def("Only 1 filter or filter expression can be applied per query")
  /\ builder.filterExpression = Def(Comparison(A(<<"customField">>), "=", Str("value1")))
  /\ builder.filter = Undefined

(***************************************************************************)
(* One tracker, resolving names and literals.                              *)
(***************************************************************************)
\* the get calls on record that resolved a field name / a literal
NameGets == {i \in 1..Len(resolutions) : resolutions[i].value.kind = "AttributeName"}
LiteralGets == (1..Len(resolutions)) \ NameGets

NameOfGet(i) == JoinDot(resolutions[i].value.name)
\* what the placeholder of a name is made of: the alias, or else the name
LabelOfGet(i) ==
  IF IsDef(resolutions[i].alias) THEN Val(resolutions[i].alias) ELSE NameOfGet(i)

\* what holds of the names map whatever the calls were: one entry per
\* placeholder handed out, each placeholder mapped to the name it was last
\* handed out for
C14_NamesMap ==
  /\ DOMAIN attributeTracker.attributeNames = {Val(resolutions[i].str) : i \in NameGets}
  /\ \A i \in NameGets :
       (\A j \in NameGets : j > i => resolutions[j].str # resolutions[i].str)
          => attributeTracker.attributeNames[Val(resolutions[i].str)] = NameOfGet(i)

\* the same field name resolved twice
C14_Pairs == {<<i, j>> \in NameGets \X NameGets : i < j /\ NameOfGet(i) = NameOfGet(j)}

Rank(i) == Cardinality({j \in LiteralGets : j < i})

\* the placeholder of a literal: the alias or v_sub, then the counter
ValuePlaceholder(i) ==
  ":" \o (IF IsDef(resolutions[i].alias) THEN Val(resolutions[i].alias) ELSE "v_sub")
      \o ToString(Rank(i))

\* what a placeholder holds for a literal: a Date as its ISO string
Stored(value) ==
  IF value.kind = "Date" THEN Str(toISOString(value.text)) ELSE value

\* the literals are numbered 0, 1, 2, ... in the order they were resolved,
\* and the counter is the number of literals resolved so far
C15_Numbered ==
  /\ attributeTracker.valueCounter = Cardinality(LiteralGets)
  /\ \A i \in LiteralGets : resolutions[i].str = Def(ValuePlaceholder(i))

\* C15: every literal resolved, with or without alias, gets the next counter
\* value, a placeholder no other resolution got, and an entry of the values
\* map that holds this literal.
C15_ValuePlaceholders ==
  /\ C15_Numbered
  /\ \A i, j \in LiteralGets : i # j => resolutions[i].str # resolutions[j].str
  /\ \A i \in LiteralGets :
       attributeTracker.attributeValues[Val(resolutions[i].str)] = Stored(resolutions[i].value)

(***************************************************************************)
(* One tracker, compiling conditions.                                      *)
(***************************************************************************)
\* one name placeholder per segment of a path, joined by "."
PerSegment(path) == Join([i \in 1..Len(path) |-> "#" \o path[i]], ".")

\* the get calls on record whose operand is, or starts with, a field name
NamedGets ==
  {i \in 1..Len(resolutions) :
     \/ resolutions[i].value.kind = "AttributeName"
     \/ /\ resolutions[i].value.kind = "Comparison"
        /\ resolutions[i].value.operand1.kind = "AttributeName"
        /\ resolutions[i].value.operand2.kind = "string"
     \/ /\ resolutions[i].value.kind \in {"Between", "In"}
        /\ resolutions[i].value.operand.kind = "AttributeName"}

FieldOfGet(i) ==
  IF resolutions[i].value.kind = "AttributeName" THEN resolutions[i].value.name
  ELSE IF resolutions[i].value.kind = "Comparison" THEN resolutions[i].value.operand1.name
  ELSE resolutions[i].value.operand.name

\* the n-th value placeholder handed out from a tracker on
ValueAt(tr, n) == ":v_sub" \o ToString(tr.valueCounter + n)

\* C16: a field name of several dot-separated segments, resolved on its own
\* or as the operand of a Comparison, Between or In, becomes one name
\* placeholder per segment, joined by ".", and each segment has its own
\* entry in the names map.
C16_NameSplitOnDots ==
  \A i \in NamedGets :
     LET field == FieldOfGet(i)
         value == resolutions[i].value
         tr == resolutions[i].before
     IN  /\ resolutions[i].str =
              Def(CASE value.kind = "AttributeName" -> PerSegment(field)
                    [] value.kind = "Comparison" ->
                         PerSegment(field) \o " " \o value.comparator \o " " \o ValueAt(tr, 0)
                    [] value.kind = "Between" ->
                         PerSegment(field) \o " BETWEEN " \o ValueAt(tr, 0)
                           \o " AND " \o ValueAt(tr, 1)
                    [] value.kind = "In" ->
                         PerSegment(field) \o " IN (" \o ValueAt(tr, 0) \o ", "
                           \o ValueAt(tr, 1) \o ")")
         /\ \A k \in 1..Len(field) :
              /\ ("#" \o field[k]) \in DOMAIN attributeTracker.attributeNames
              /\ attributeTracker.attributeNames["#" \o field[k]] = field[k]

\* the tracker as call i left it
AfterOfGet(i) ==
  IF i = Len(resolutions) THEN attributeTracker ELSE resolutions[i + 1].before

\* conditions compiled one after the other, each on the tracker the one
\* before it left: their strings, and the tracker after the last
RECURSIVE InOrder(_, _)
InOrder(conditions, tr) ==
  IF conditions = <<>> THEN [strs |-> <<>>, tracker |-> tr, ok |-> TRUE]
  ELSE LET first == Build(Head(conditions), tr)
           rest == InOrder(Tail(conditions), first.tracker)
       IN  [strs |-> <<first.str>> \o rest.strs, tracker |-> rest.tracker,
            ok |-> ~IsDef(first.error) /\ rest.ok]

\* C17: an And or Or of fewer than 2 sub-conditions fails to compile; one of
\* 2 or more whose sub-conditions compile yields their strings, compiled in
\* order on the one tracker, each in parentheses, joined by " AND " or " OR ".
C17_AndOrCompile ==
  \A i \in 1..Len(resolutions) :
     LET c == resolutions[i].value
     IN  c.kind \in {"And", "Or"} =>
           LET subs == InOrder(c.conditions, resolutions[i].before)
           IN  IF Len(c.conditions) < 2
               THEN IsDef(resolutions[i].error) /\ resolutions[i].str = Undefined
               ELSE subs.ok =>
                      /\ resolutions[i].error = Undefined
                      /\ resolutions[i].str =
                           Def("(" \o Join(subs.strs, IF c.kind = "And" THEN ") AND ("
                                                                        ELSE ") OR (")
                                   \o ")")
                      /\ AfterOfGet(i) = subs.tracker

C17_Witness ==
  /\ Len(resolutions) = 2
  /\ resolutions[1].value = Or(<<PropNot1>>)
  /\ resolutions[1].error = Def("Or condition must have at least 2 operands but got: 1")
  /\ resolutions[2].value = And(<<PropNot1, PropNot2, PropNot2>>)
  /\ resolutions[2].str =
       Def("(#propA <> :v_sub0) AND (#propA <> :v_sub1) AND (#propA <> :v_sub2)")
  /\ attributeTracker.valueCounter = 3

(***************************************************************************)
(* The simple filter map.                                                  *)
(***************************************************************************)
\* the values the entries before entry i hold
RECURSIVE ValuesBefore(_, _)
ValuesBefore(filters, i) ==
  IF i = 1 THEN 0 ELSE ValuesBefore(filters, i - 1) + Len(filters[i - 1].values)

\* "#field = :v_subN"
Equality(key, n) == "#" \o JoinDot(key) \o " = :v_sub" \o ToString(n)

\* one field of the map, whose first value gets counter n: an equality, or
\* an OR of one equality per value
FieldString(entry, n) ==
  IF Len(entry.values) = 1 THEN Equality(entry.key, n)
  ELSE "(" \o Join([j \in 1..Len(entry.values) |-> Equality(entry.key, n + j - 1)],
                    ") OR (") \o ")"

\* the whole map, whose first value gets counter n: the one field as it is,
\* or the fields in map order joined by AND
FilterString(filters, n) ==
  IF Len(filters) = 1 THEN FieldString(filters[1], n)
  ELSE "(" \o Join([i \in 1..Len(filters) |->
                       FieldString(filters[i], n + ValuesBefore(filters, i))],
                    ") AND (") \o ")"

\* a map of at least one field whose fields each have at least one value
Filtering(b) ==
  /\ b.filter # Undefined
  /\ Len(Val(b.filter)) >= 1
  /\ \A i \in 1..Len(Val(b.filter)) : Len(Val(b.filter)[i].values) >= 1

\* the literals the key condition of this build resolved before the filter
KeyValues == IF BuildOf("query") THEN 1 ELSE 0

\* C18: a build with a simple filter map whose fields each have at least one
\* value succeeds (a query given its partition key), and its filter
\* expression is: for a field with one value an equality, for a field with
\* several an OR of one equality per value, for several fields these joined
\* by AND in map order, for a single field its condition with no AND around
\* it; the values map holds each value under its placeholder.
C18_SimpleFilterCompile ==
  (outcome.call = "build" /\ Filtering(builder)
     /\ ~(BuildOf("query") /\ NoPartitionKey(builder)))
  => /\ Built
     /\ Val(outcome.request).FilterExpression =
          Def(FilterString(Val(builder.filter), KeyValues))
     /\ \A i \in 1..Len(Val(builder.filter)) :
          \A j \in 1..Len(Val(builder.filter)[i].values) :
             Val(Val(outcome.request).ExpressionAttributeValues)
               [":v_sub" \o ToString(KeyValues + ValuesBefore(Val(builder.filter), i) + j - 1)]
                = Val(builder.filter)[i].values[j]

C18_Witness ==
  /\ Built /\ BuildOf("query")
  /\ Filtering(builder)
  /\ Len(Val(builder.filter)) = 3
  /\ Val(outcome.request).FilterExpression =
       Def("(#foo = :v_sub1) AND ((#bar = :v_sub2) OR (#bar = :v_sub3)) AND (#baz = :v_sub4)")

(***************************************************************************)
(* The key condition of a query.                                           *)
(***************************************************************************)
\* "#pk = :v_sub0", the partition equality as the first thing a build compiles
PartitionEquality(k) == "#" \o JoinDot(Val(k.partitionKeyName)) \o " = :v_sub0"

\* the tracker of a build once the partition equality is compiled
AfterPartition(k) ==
  [valueCounter |-> 1,
   attributeNames |-> Put(EmptyMap, "#" \o JoinDot(Val(k.partitionKeyName)),
                          JoinDot(Val(k.partitionKeyName))),
   attributeValues |-> Put(EmptyMap, ":v_sub0", convertValue(Val(k.partitionKeyValue)))]

\* a sort key name is given when it is there and not empty
SortNameGiven(k) == k.sortKeyName \notin {Undefined, Def(<<>>)}

KeyConditionString(k) ==
  IF SortNameGiven(k) /\ k.sortKeyValue # Undefined
  THEN "(" \o PartitionEquality(k) \o ") AND (#" \o JoinDot(Val(k.sortKeyName))
         \o " = :v_sub1)"
  ELSE IF k.sortKeyCondition # Undefined
  THEN "(" \o PartitionEquality(k) \o ") AND ("
         \o Get(AfterPartition(k), Val(k.sortKeyCondition), Undefined).str \o ")"
  ELSE PartitionEquality(k)

\* C19: a query build given its partition key succeeds, and its key-condition
\* expression is the partition equality AND a sort equality when both the sort
\* key name and the sort key value are given; otherwise the partition
\* equality AND the given sort-key condition when one is given; otherwise the
\* partition equality alone, with no AND around it.
C19_KeyCondition ==
  (BuildOf("query") /\ ~NoPartitionKey(builder))
  => /\ Built
     /\ Val(outcome.request).KeyConditionExpression =
          Def(KeyConditionString(Val(builder.keys)))

C19_Witness ==
  /\ Built /\ BuildOf("query")
  /\ builder.keys = Def(KeysNameAndCondition)
  /\ Val(outcome.request).KeyConditionExpression = Def("(#pk = :v_sub0) AND (#sk > :v_sub1)")

(***************************************************************************)
(* The projection.                                                         *)
(***************************************************************************)
\* the placeholders a projection has to hold: those of the requested fields,
\* of the partition key and, if set, of the sort key
Required(b) ==
  {"#" \o JoinDot(Val(b.fields)[i]) : i \in 1..Len(Val(b.fields))}
  \cup (IF b.keys = Undefined \/ Val(b.keys).partitionKeyName \in {Undefined, Def(<<>>)}
        THEN {} ELSE {"#" \o JoinDot(Val(Val(b.keys).partitionKeyName))})
  \cup (IF b.keys = Undefined \/ Val(b.keys).sortKeyName \in {Undefined, Def(<<>>)}
        THEN {} ELSE {"#" \o JoinDot(Val(Val(b.keys).sortKeyName))})

\* what keys handed over without a partition key name may add
Nameless(b) ==
  IF b.keys # Undefined /\ Val(b.keys).partitionKeyName \in {Undefined, Def(<<>>)}
  THEN {"#undefined", "#"} ELSE {}

\* the ways to write the elements of S one after the other, each once
Orderings(S) ==
  {s \in [1..Cardinality(S) -> S] :
     \A i \in 1..Cardinality(S) : \A j \in 1..Cardinality(S) : i # j => s[i] # s[j]}

\* C20: whenever a build compiles a projection, the projection expression is
\* a comma-separated list that holds the placeholder of every requested
\* field, of the partition key and (if set) of the sort key, each exactly
\* once, also when a key field is requested explicitly or a field is
\* requested twice; it holds nothing else, but for the placeholder of a
\* missing partition key name when keys were given without one.
C20_ProjectionDeduplicated ==
  (Built /\ builder.fields # Undefined)
  => \E extra \in SUBSET Nameless(builder) :
       \E s \in Orderings(Required(builder) \cup extra) :
          Val(outcome.request).ProjectionExpression = Def(Join(s, ","))

C20_Witness ==
  /\ Built
  /\ builder.fields = Def(<< <<"foo">>, <<"sk">>, <<"foo">> >>)
  /\ builder.keys = Def(KeysPkSk)
  /\ Val(outcome.request).ProjectionExpression = Def("#foo,#sk,#pk")

(***************************************************************************)
(* The name and value maps of a request.                                   *)
(***************************************************************************)
\* C21: a built request carries a name map exactly when the tracker of that
\* build recorded a name, and a value map exactly when it recorded a value,
\* and a map it carries is that tracker's map; a scan built with no filter
\* and no projection has neither.
C21_MapsIffRecorded ==
  Built =>
    /\ (Val(outcome.request).ExpressionAttributeNames # Undefined)
         <=> (DOMAIN builder.tracker.attributeNames # {})
    /\ (Val(outcome.request).ExpressionAttributeValues # Undefined)
         <=> (DOMAIN builder.tracker.attributeValues # {})
    /\ Val(outcome.request).ExpressionAttributeNames
         \in {Undefined, Def(builder.tracker.attributeNames)}
    /\ Val(outcome.request).ExpressionAttributeValues
         \in {Undefined, Def(builder.tracker.attributeValues)}
    /\ (BuildOf("scan") /\ builder.filter = Undefined
          /\ builder.filterExpression = Undefined /\ builder.fields = Undefined)
         => /\ Val(outcome.request).ExpressionAttributeNames = Undefined
            /\ Val(outcome.request).ExpressionAttributeValues = Undefined

(***************************************************************************)
(* The direction flag.                                                     *)
(***************************************************************************)
\* the builder's pagination asks for descending order
Descending(b) == b.pagination # Undefined /\ Val(b.pagination).sortDir = Def("desc")

\* C22: a built request has ScanIndexForward = false exactly when the
\* builder's pagination direction is "desc"; with "asc", with no direction
\* and with no pagination the request has no ScanIndexForward at all.
C22_BackwardIffDesc ==
  Built =>
    Val(outcome.request).ScanIndexForward
      = (IF Descending(builder) THEN Def(FALSE) ELSE Undefined)

(***************************************************************************)
(* Two invocations at once.                                                *)
(***************************************************************************)
\* what an invocation of api on input gives when it runs on its own against
\* the answers on record, from the command call on, with items gathered so
\* far: what it returns or throws (neither, if an answer it needs is not on
\* record)
RECURSIVE Alone(_, _, _, _)
Alone(api, input, items0, call) ==
  IF PageOf(call.input) > MaxPages \/ ~IsDef(script[PageOf(call.input)])
  THEN [returned |-> Undefined, thrown |-> Undefined]
  ELSE LET r == Val(script[PageOf(call.input)])
           items == items0 \o OrEmpty(r.Items)
       IN  IF IsDef(r.error) THEN [returned |-> Undefined, thrown |-> r.error]
           ELSE IF hasResultBeenTruncated(input.Limit, Def(Len(items)), r.LastEvaluatedKey)
           THEN Alone(api, input, items, NextCommand(LoopOf(api), input, items, r))
           ELSE [returned |-> Def(Returned(api, [r EXCEPT !.Items = Def(items)])),
                 thrown |-> Undefined]

\* C23: whatever the interleaving of the store calls of two invocations on
\* one repository, an invocation that has ended has returned (or thrown)
\* exactly what it returns (or throws) when it runs alone against the same
\* answers of the store.
C23_InvocationsIndependent ==
  \A p \in Procs :
     fetch[p].pc \in {"done", "failed"}
       => [returned |-> fetch[p].returned, thrown |-> fetch[p].thrown]
            = Alone(fetch[p].api, request, <<>>, FirstCommand(LoopOf(fetch[p].api), request))

\* both invocations have returned items gathered over several calls, and
\* each had an answer while the other one was between two of its calls
C23_Witness ==
  \A p \in Procs :
     /\ fetch[p].pc = "done" /\ fetch[p].overlapped
     /\ NCalls(p) >= 2
     /\ Len(Val(fetch[p].returned).items) >= 2

(***************************************************************************)
(* The defaults of getExampleDataItemsByEmail.                             *)
(***************************************************************************)
\* the caller of the entry point gave a value for key k
Supplied(k) == outcome.input # Undefined /\ Prop(Val(outcome.input), k) # Undefined

\* the query of the first page the call sent
Issued == fetch[Pager].calls[1].input

\* C24: every call of getExampleDataItemsByEmail, direct or through
\* getDataItemsByEmail, whose caller supplied no page size issues its query
\* with Limit 25, and whose caller supplied no sort direction issues it in
\* descending order (ScanIndexForward = false).
C24_DefaultPagination ==
  outcome.call = "getExampleDataItemsByEmail" =>
    /\ fetch[Pager].pc = "await"
    /\ ~Supplied("pageSize") => Issued.Limit = Def(DefaultPageSize)
    /\ ~Supplied("sortDir") => Issued.ScanIndexForward = Def(FALSE)

(***************************************************************************)
(* The limits of the follow-up calls.                                      *)
(***************************************************************************)
\* a limit L > 0 was requested
Limited == request.Limit # Undefined /\ Val(request.Limit) > 0

\* no answer p has had holds more items than the limit of the call it answers
Respecting(p) ==
  \A n \in 1..fetch[p].nresp :
     Len(OrEmpty(Resp(p, n).Items)) <= Val(fetch[p].calls[n].input.Limit)

\* C25 as stated: with a requested limit L > 0 and a store that keeps to the
\* limit of each call, every follow-up call carries a limit in 1..L-1 and the
\* fetch returns at most L items.
C25_Original ==
  \A p \in Procs :
     (Started(p) /\ Limited /\ Respecting(p))
       => /\ \A n \in 2..NCalls(p) :
               /\ fetch[p].calls[n].input.Limit # Undefined
               /\ Val(fetch[p].calls[n].input.Limit) \in 1..(Val(request.Limit) - 1)
          /\ fetch[p].pc = "done" => Len(Val(fetch[p].returned).items) <= Val(request.Limit)

\* C25: with a requested limit L > 0 and a store that keeps to the limit of
\* each call, every follow-up call carries a limit in 1..L, never 0 or
\* negative, and in 1..L-1 once an item has been gathered; the fetch returns
\* at most L items.
C25_FollowUpLimits ==
  \A p \in Procs :
     (Started(p) /\ Limited /\ Respecting(p))
       => /\ \A n \in 2..NCalls(p) :
               /\ fetch[p].calls[n].input.Limit # Undefined
               /\ Val(fetch[p].calls[n].input.Limit) \in 1..Val(request.Limit)
               /\ Acc(p, n - 1) > 0
                    => Val(fetch[p].calls[n].input.Limit) <= Val(request.Limit) - 1
          /\ fetch[p].pc = "done" => Len(Val(fetch[p].returned).items) <= Val(request.Limit)

\* a fetch of L = 2 items over three calls: an empty page, then two pages of
\* one item
C25_Witness ==
  /\ request.Limit = Def(2) /\ Respecting(Pager)
  /\ fetch[Pager].pc = "done" /\ NCalls(Pager) = 3
  /\ fetch[Pager].calls[2].input.Limit = Def(2)
  /\ fetch[Pager].calls[3].input.Limit = Def(1)
  /\ Len(Val(fetch[Pager].returned).items) = 2

(***************************************************************************)
(* Termination.                                                            *)
(***************************************************************************)
\* every answer p has had that carries a continuation token holds an item
Progressing(p) ==
  \A n \in 1..fetch[p].nresp :
     IsDef(Resp(p, n).LastEvaluatedKey) => Len(OrEmpty(Resp(p, n).Items)) >= 1

\* every answer p has had carries a continuation token and no item
Starving(p) ==
  \A n \in 1..fetch[p].nresp :
     /\ ~IsDef(Resp(p, n).error)
     /\ IsDef(Resp(p, n).LastEvaluatedKey)
     /\ Len(OrEmpty(Resp(p, n).Items)) = 0

\* p has returned, or thrown what the store threw
Ended(p) == fetch[p].pc \in {"done", "failed"}

\* with a limit L > 0 and an item in every answer that carries a token, a
\* fetch makes at most L store calls
C26_AtMostLCalls ==
  \A p \in Procs :
     (Started(p) /\ Limited /\ Progressing(p)) => NCalls(p) <= Val(request.Limit)

\* as long as every answer carries a token and no item, the fetch has not
\* returned and has sent one more call
C26_StarvedKeepsCalling ==
  \A p \in Procs :
     (Started(p) /\ Starving(p)) => fetch[p].pc = "await" /\ NCalls(p) = fetch[p].nresp + 1

\* C26: against a store that answers every call and sooner or later answers
\* without a continuation token, a fetch that was started ends; with a limit
\* L > 0 it ends within L store calls when every answer that carries a token
\* holds at least one item; and for as long as the store answers with a token
\* and no items, the fetch does not end but calls again.
C26_Termination ==
  /\ \A p \in Procs : Started(p) ~> Ended(p)
  /\ [](C26_AtMostLCalls /\ C26_StarvedKeepsCalling)

\* a fetch of limit 2 that ended with its second call, after an answer with a
\* token and one item; and one more call sent after an answer with a token
\* and no item
C26_Witness ==
  /\ request.Limit = Def(2)
  /\ fetch[Pager].pc = "done" /\ NCalls(Pager) = 2 /\ Progressing(Pager)
  /\ IsDef(Resp(Pager, 1).LastEvaluatedKey)
  /\ Len(Val(fetch[Pager].returned).items) = 2

(***************************************************************************)
(* The items a fetch returns.                                              *)
(***************************************************************************)
\* C27: the items a fetch returns are the item lists of the answers it had,
\* one after the other in the order of its calls: none dropped, repeated or
\* moved; an answer without an item list adds nothing.
C27_ItemsAreConcatenation ==
  \A p \in Procs :
     fetch[p].pc = "done"
       => Val(fetch[p].returned).items = Concat(p, fetch[p].nresp)

\* three calls of a scan; the second answer has no item list, the first and
\* the third hold items
C27_Witness ==
  /\ fetch[Aggregator].pc = "done" /\ fetch[Aggregator].api = "scanWithAggregation"
  /\ fetch[Aggregator].nresp = 3
  /\ ~IsDef(Resp(Aggregator, 2).Items)
  /\ Len(OrEmpty(Resp(Aggregator, 1).Items)) >= 1
  /\ Len(OrEmpty(Resp(Aggregator, 3).Items)) >= 1
  /\ Val(fetch[Aggregator].returned).items
       = Val(Resp(Aggregator, 1).Items) \o Val(Resp(Aggregator, 3).Items)

(***************************************************************************)
(* Placeholders and maps of a request.                                     *)
(***************************************************************************)
\* what ends a placeholder in the text of an expression
Delimiters == {" ", ",", "(", ")"}

\* where the placeholder that starts at position i of expression ends: before
\* a delimiter, before the "." that joins it to the next segment's
\* placeholder, or with the text
RECURSIVE TokenEnd(_, _)
TokenEnd(expression, i) ==
  IF \/ i = Len(expression)
     \/ SubSeq(expression, i + 1, i + 1) \in Delimiters
     \/ /\ i + 2 <= Len(expression)
        /\ SubSeq(expression, i + 1, i + 2) = ".#"
  THEN i
  ELSE TokenEnd(expression, i + 1)

\* the placeholders of one kind ("#" names, ":" values) in an expression
Occurring(expression, sigil) ==
  {SubSeq(expression, i, TokenEnd(expression, i)) :
     i \in {j \in 1..Len(expression) : SubSeq(expression, j, j) = sigil}}

\* the placeholders of one kind in the expressions of a request
Used(q, sigil) ==
  UNION {Occurring(Val(q[f]), sigil) :
           f \in {g \in {"KeyConditionExpression", "FilterExpression", "ProjectionExpression"} :
                    q[g] # Undefined}}

\* the keys of a map a request may carry
KeysOf(map) == IF map = Undefined THEN {} ELSE DOMAIN Val(map)

\* C28: in every request build() returns, whatever builder calls and builds
\* came before, the name placeholders in its key-condition, filter and
\* projection expressions are exactly the keys of its name map, and the value
\* placeholders in them exactly the keys of its value map.
C28_PlaceholdersMatchMaps ==
  Built =>
    /\ Used(Val(outcome.request), "#") = KeysOf(Val(outcome.request).ExpressionAttributeNames)
    /\ Used(Val(outcome.request), ":") = KeysOf(Val(outcome.request).ExpressionAttributeValues)

(***************************************************************************)
(* A request after it was returned.  build() returns this.query itself:    *)
(* what the caller holds is that object, with the fields it has now.       *)
(***************************************************************************)
\* C29: once build() has returned a request, no operation on the builder
\* changes it: the with* call or build() that comes next leaves every field
\* of the returned request as it was when it was returned.
C29_ReturnedRequestFrozen ==
  [][Built => builder'.query = Val(outcome.request)]_vars

(***************************************************************************)
(* A build that fails.                                                     *)
(***************************************************************************)
\* C30: a build() that throws, for a missing partition key or for an And/Or
\* of fewer than two operands met while compiling, leaves the builder's
\* configuration and its request object as they were before the call.
C30_FailedBuildChangesNothing ==
  [][(outcome'.call = "build" /\ outcome'.error # Undefined)
       => [builder' EXCEPT !.tracker = builder.tracker] = builder]_vars

====
